---- MODULE Spec2Model ----
(***************************************************************************)
(* A model of GLcommon/objectNameManager.cpp: NameSpace (local <-> global  *)
(* name maps of one object type), GlobalNameSpace (the locked wrapper      *)
(* around the GL dispatcher's glGen* / glDelete* entry points), ShareGroup *)
(* (one NameSpace per type, the object-data map, the texture ref-count     *)
(* map, all under one lock) and ObjectNameManager (the registry of share   *)
(* groups by group name).                                                  *)
(***************************************************************************)
EXTENDS Integers, Sequences, FiniteSets, Bags, TLC

\* ------------------------------------------------------------------ bounds
\* Width of the modelled ObjectLocalName counter m_nextName (it wraps at
\* 2^LocalBits; the program's counter is 64 bits wide).
LocalBits == 2
\* Global names the GL backend can hand out per type: 1..MaxGlobal.
MaxGlobal == 2
\* ShareGroup objects that can be constructed over a run.
MaxGroups == 2
\* External holders of a ShareGroupPtr (contexts keeping a group alive).
NumClients == 1
\* Threads calling into one ShareGroup concurrently.
NumThreads == 2
\* The number of calls of a run.
MaxCalls == 4

NameMod == 2 ^ LocalBits
LocalNames == 0 .. (NameMod - 1)
GlobalNames == 0 .. MaxGlobal
GroupIds == 1 .. MaxGroups
Clients == 1 .. NumClients
Threads == 1 .. NumThreads

\* ------------------------------------------------------------------- types
\* NamedObjectType, as the switch of GlobalNameSpace::genName lists it.
ObjectTypes == {"VERTEXBUFFER", "TEXTURE", "RENDERBUFFER", "FRAMEBUFFER", "SHADER"}
\* A value of the enum's integer range that fails p_type < NUM_OBJECT_TYPES.
OutOfRangeType == "NUM_OBJECT_TYPES"
\* The types GlobalNameSpace::genName asks the GL dispatcher for.
GLTypes == ObjectTypes \ {"SHADER"}

\* ------------------------------------------------- std::unordered_map ops
EmptyMap == << >>
Has(m, k) == k \in DOMAIN m
\* m[k] = v (operator[] then assignment: inserts or overwrites)
Put(m, k, v) == [x \in (DOMAIN m) \cup {k} |-> IF x = k THEN v ELSE m[x]]
\* m.emplace(k, v): inserts only when k is absent
Emplace(m, k, v) == IF Has(m, k) THEN m ELSE Put(m, k, v)
\* m.erase(k)
Erase(m, k) == [x \in (DOMAIN m) \ {k} |-> m[x]]
Range(m) == {m[x] : x \in DOMAIN m}

\* ------------------------------------------------------------- GL backend
\* The GL dispatcher is outside this file.  Per type it keeps the names in
\* use (live); glGen* hands out a nonzero name that is not in use, glDelete*
\* ends the use of a name and silently ignores a name that is not in use.
\* handed is bookkeeping of the model: the names handed out so far.
NewBackend ==
  [live   |-> [t \in GLTypes |-> {}],
   handed |-> [t \in GLTypes |-> {}]]

FreeNames(B, t) == (1 .. MaxGlobal) \ B.live[t]

glGen(B, t, n) ==
  [B EXCEPT !.live[t] = @ \cup {n}, !.handed[t] = @ \cup {n}]

glDelete(B, t, n) == [B EXCEPT !.live[t] = @ \ {n}]

\* --------------------------------------------------------- GlobalNameSpace
\* G = [m_deleteInitialized, gl (the backend), calls (the bag of
\* GlobalNameSpace::deleteName calls <<type, name>> of the operation in
\* progress), unbound (an m_glDelete entry was called before it was bound)].
NewGlobalNameSpace ==
  [m_deleteInitialized |-> FALSE,
   gl      |-> NewBackend,
   calls   |-> EmptyBag,
   unbound |-> FALSE]

\* GlobalNameSpace::genName; fresh is the name the dispatcher writes.
GNS_genName(G, t, fresh) ==
  IF t \notin ObjectTypes
    THEN [G |-> G, ret |-> 0]
    ELSE LET name == IF t \in GLTypes THEN fresh ELSE 0
             G1   == IF t \in GLTypes
                       THEN [G EXCEPT !.gl = glGen(@, t, fresh)]
                       ELSE G
         IN  [G |-> [G1 EXCEPT !.m_deleteInitialized = TRUE], ret |-> name]

\* GlobalNameSpace::deleteName
GNS_deleteName(G, t, n) ==
  LET G1 == [G EXCEPT !.calls = @ (+) SetToBag({<<t, n>>})]
  IN  IF t = "SHADER"
        THEN G1
        ELSE IF G.m_deleteInitialized
          THEN [G1 EXCEPT !.gl = glDelete(@, t, n)]
          ELSE [G1 EXCEPT !.unbound = TRUE]

\* --------------------------------------------------------------- NameSpace
NewNameSpace == [l2g |-> EmptyMap, g2l |-> EmptyMap, m_nextName |-> 0]

\* (mutant) the do/while without the localName == 0 test
RECURSIVE Mutant_Advance_ZeroAllowed(_, _, _)
Mutant_Advance_ZeroAllowed(l2g, next, fuel) ==
  LET n == (next + 1) % NameMod
  IN  IF ~Has(l2g, n) THEN n
      ELSE IF fuel = 0 THEN -1
      ELSE Mutant_Advance_ZeroAllowed(l2g, n, fuel - 1)

\* The do/while of NameSpace::genName: ++m_nextName until the value is
\* nonzero and absent from m_localToGlobalMap.  Diverges when the loop
\* cannot end (every nonzero value of the counter's range is present).
Diverges == -1
RECURSIVE Advance(_, _, _)
Advance(l2g, next, fuel) ==
  LET n == (next + 1) % NameMod
  IN  IF n # 0 /\ ~Has(l2g, n) THEN n
      ELSE IF fuel = 0 THEN Diverges
      ELSE Advance(l2g, n, fuel - 1)

NextLocalName(ns) == Advance(ns.l2g, ns.m_nextName, NameMod)

\* NameSpace::genName (for a call whose loop ends)
NS_genName(ns, G, t, p_localName, genGlobal, genLocal, fresh) ==
  LET localName == IF genLocal THEN NextLocalName(ns) ELSE p_localName
      ns1 == IF genLocal THEN [ns EXCEPT !.m_nextName = localName] ELSE ns
  IN  IF genGlobal
        THEN LET r == GNS_genName(G, t, fresh)
             IN  [ns  |-> [ns1 EXCEPT !.l2g = Put(@, localName, r.ret),
                                      !.g2l = Put(@, r.ret, localName)],
                  G   |-> r.G,
                  ret |-> localName]
        ELSE [ns |-> ns1, G |-> G, ret |-> localName]

\* NameSpace::getGlobalName
NS_getGlobalName(ns, p_localName) ==
  IF Has(ns.l2g, p_localName) THEN ns.l2g[p_localName] ELSE 0

\* NameSpace::getLocalName
NS_getLocalName(ns, p_globalName) ==
  IF Has(ns.g2l, p_globalName) THEN ns.g2l[p_globalName] ELSE 0

\* NameSpace::isObject
NS_isObject(ns, p_localName) == Has(ns.l2g, p_localName)

\* (mutant) deleteName without the TEXTURE exemption
Mutant_deleteName_AlwaysRelease(ns, G, t, p_localName) ==
  IF Has(ns.l2g, p_localName)
    THEN LET g == ns.l2g[p_localName]
         IN  [ns |-> [ns EXCEPT !.g2l = Erase(@, g),
                                !.l2g = Erase(@, p_localName)],
              G  |-> GNS_deleteName(G, t, g)]
    ELSE [ns |-> ns, G |-> G]

\* NameSpace::deleteName
NS_deleteName(ns, G, t, p_localName) ==
  IF Has(ns.l2g, p_localName)
    THEN LET g == ns.l2g[p_localName]
         IN  [ns |-> [ns EXCEPT !.g2l = Erase(@, g),
                                !.l2g = Erase(@, p_localName)],
              G  |-> IF t # "TEXTURE" THEN GNS_deleteName(G, t, g) ELSE G]
    ELSE [ns |-> ns, G |-> G]

\* NameSpace::replaceGlobalName
NS_replaceGlobalName(ns, G, t, p_localName, p_globalName) ==
  IF Has(ns.l2g, p_localName)
    THEN LET g == ns.l2g[p_localName]
         IN  [ns |-> [ns EXCEPT
                        !.l2g = Put(@, p_localName, p_globalName),
                        !.g2l = Emplace(Erase(@, g), p_globalName, p_localName)],
              G  |-> IF t # "TEXTURE" THEN GNS_deleteName(G, t, g) ELSE G]
    ELSE [ns |-> ns, G |-> G]

\* NameSpace::~NameSpace: one GlobalNameSpace::deleteName per entry of
\* m_localToGlobalMap (a global name held by k local names is passed k times).
RECURSIVE DeleteAll(_, _, _, _)
DeleteAll(l2g, G, t, todo) ==
  IF todo = {} THEN G
  ELSE LET l == CHOOSE x \in todo : TRUE
       IN  DeleteAll(l2g, GNS_deleteName(G, t, l2g[l]), t, todo \ {l})

NS_destroy(ns, G, t) == DeleteAll(ns.l2g, G, t, DOMAIN ns.l2g)

\* -------------------------------------------------------------- ShareGroup
\* A pointer member that starts null and is allocated on first use.
NullPtr == [alloc |-> FALSE, map |-> EmptyMap]
NewPtr(m) == [alloc |-> TRUE, map |-> m]

\* ShareGroup::ShareGroup: one NameSpace per type; m_objectsData and
\* m_globalTextureRefCounter start null.
NewShareGroup ==
  [status |-> "alive",
   ns |-> [t \in ObjectTypes |-> NewNameSpace],
   m_objectsData |-> NullPtr,
   m_globalTextureRefCounter |-> NullPtr]

\* A group that was never constructed, and one whose destructor has run.
NoShareGroup == [NewShareGroup EXCEPT !.status = "none"]
DeadShareGroup == [NewShareGroup EXCEPT !.status = "destroyed"]

\* TypedObjectName: equal when both the name and the type are equal.
TypedObjectName(t, l) == <<t, l>>

NoFault == "none"

\* The count m_globalTextureRefCounter holds for a name (0: no entry).
RefCountOf(grp, p_globalName) ==
  LET map == grp.m_globalTextureRefCounter.map
  IN  IF Has(map, p_globalName) THEN map[p_globalName] ELSE 0

\* ShareGroup::incTexRefCounterNoLock
incTexRefCounterNoLock(grp, p_globalName) ==
  LET map == grp.m_globalTextureRefCounter.map
      val == (IF Has(map, p_globalName) THEN map[p_globalName] ELSE 0) + 1
  IN  [grp |-> [grp EXCEPT !.m_globalTextureRefCounter =
                              NewPtr(Put(map, p_globalName, val))],
       ret |-> val]

\* ShareGroup::genName, the part under the lock after the range check, in
\* its two halves: the NameSpace call, then the ref-count bump of a texture.
SG_genName_ns(grp, G, t, p_localName, genLocal, fresh) ==
  LET r == NS_genName(grp.ns[t], G, t, p_localName, TRUE, genLocal, fresh)
  IN  [grp |-> [grp EXCEPT !.ns[t] = r.ns], G |-> r.G, ret |-> r.ret]

SG_genName_inc(grp, t, localName) ==
  IF t = "TEXTURE"
    THEN incTexRefCounterNoLock(grp, NS_getGlobalName(grp.ns[t], localName)).grp
    ELSE grp

\* Whether the do/while of NameSpace::genName never ends for this call.
GenNameLoops(grp, t, genLocal) ==
  t \in ObjectTypes /\ genLocal /\ NextLocalName(grp.ns[t]) = Diverges

\* ShareGroup::genName
SG_genName(grp, G, t, p_localName, genLocal, fresh) ==
  IF t \notin ObjectTypes
    THEN [grp |-> grp, G |-> G, ret |-> 0, fault |-> NoFault]
    ELSE LET r == SG_genName_ns(grp, G, t, p_localName, genLocal, fresh)
         IN  [grp |-> SG_genName_inc(r.grp, t, r.ret), G |-> r.G,
              ret |-> r.ret, fault |-> NoFault]

\* ShareGroup::genGlobalName
SG_genGlobalName(grp, G, t, fresh) ==
  IF t \notin ObjectTypes
    THEN [grp |-> grp, G |-> G, ret |-> 0, fault |-> NoFault]
    ELSE LET r == GNS_genName(G, t, fresh)
         IN  [grp |-> grp, G |-> r.G, ret |-> r.ret, fault |-> NoFault]

\* ShareGroup::getGlobalName
SG_getGlobalName(grp, t, p_localName) ==
  IF t \notin ObjectTypes THEN 0 ELSE NS_getGlobalName(grp.ns[t], p_localName)

\* ShareGroup::getLocalName
SG_getLocalName(grp, t, p_globalName) ==
  IF t \notin ObjectTypes THEN 0 ELSE NS_getLocalName(grp.ns[t], p_globalName)

\* ShareGroup::isObject
SG_isObject(grp, t, p_localName) ==
  IF t \notin ObjectTypes THEN FALSE ELSE NS_isObject(grp.ns[t], p_localName)

\* (mutant) deleteName that drops the object data of the name under every type
Mutant_deleteName_AllTypes(grp, G, t, p_localName) ==
  IF t \notin ObjectTypes
    THEN [grp |-> grp, G |-> G, ret |-> 0, fault |-> NoFault]
    ELSE LET r == NS_deleteName(grp.ns[t], G, t, p_localName)
             od == grp.m_objectsData
         IN  [grp |-> [grp EXCEPT
                         !.ns[t] = r.ns,
                         !.m_objectsData =
                            IF od.alloc
                              THEN NewPtr([id \in {x \in DOMAIN od.map : x[2] # p_localName}
                                             |-> od.map[id]])
                              ELSE od],
              G |-> r.G, ret |-> 0, fault |-> NoFault]

\* ShareGroup::deleteName
SG_deleteName(grp, G, t, p_localName) ==
  IF t \notin ObjectTypes
    THEN [grp |-> grp, G |-> G, ret |-> 0, fault |-> NoFault]
    ELSE LET r == NS_deleteName(grp.ns[t], G, t, p_localName)
             od == grp.m_objectsData
         IN  [grp |-> [grp EXCEPT
                         !.ns[t] = r.ns,
                         !.m_objectsData =
                            IF od.alloc
                              THEN NewPtr(Erase(od.map, TypedObjectName(t, p_localName)))
                              ELSE od],
              G |-> r.G, ret |-> 0, fault |-> NoFault]

\* ShareGroup::replaceGlobalName
SG_replaceGlobalName(grp, G, t, p_localName, p_globalName) ==
  IF t \notin ObjectTypes
    THEN [grp |-> grp, G |-> G, ret |-> 0, fault |-> NoFault]
    ELSE LET r == NS_replaceGlobalName(grp.ns[t], G, t, p_localName, p_globalName)
         IN  [grp |-> [grp EXCEPT !.ns[t] = r.ns], G |-> r.G, ret |-> 0,
              fault |-> NoFault]

\* (mutant) setObjectData without the p_type range check
Mutant_setObjectData_NoRangeCheck(grp, t, p_localName, data) ==
  [grp EXCEPT !.m_objectsData =
     NewPtr(Emplace(@.map, TypedObjectName(t, p_localName), data))]

\* ShareGroup::setObjectData
SG_setObjectData(grp, t, p_localName, data) ==
  IF t \notin ObjectTypes
    THEN grp
    ELSE [grp EXCEPT !.m_objectsData =
            NewPtr(Emplace(@.map, TypedObjectName(t, p_localName), data))]

\* ShareGroup::getObjectData; NoData is the empty ObjectDataPtr.
NoData == "empty"
SG_getObjectData(grp, t, p_localName) ==
  IF t \notin ObjectTypes THEN NoData
  ELSE LET od == grp.m_objectsData
           id == TypedObjectName(t, p_localName)
       IN  IF od.alloc /\ Has(od.map, id) THEN od.map[id] ELSE NoData

\* ShareGroup::incTexRefCounter
SG_incTexRefCounter(grp, p_globalName) == incTexRefCounterNoLock(grp, p_globalName)

\* (mutant) the release that forgets map->erase(iterator) on the last release
Mutant_dec_NoErase(grp, G, p_globalName) ==
  LET rc == grp.m_globalTextureRefCounter
  IN  IF ~rc.alloc
        THEN [grp |-> grp, G |-> G, ret |-> 0, fault |-> "null_refcounter"]
      ELSE IF ~Has(rc.map, p_globalName)
        THEN [grp |-> grp, G |-> G, ret |-> 0, fault |-> NoFault]
      ELSE LET val == rc.map[p_globalName] - 1
           IN  [grp |-> [grp EXCEPT !.m_globalTextureRefCounter =
                                      NewPtr(Put(rc.map, p_globalName, val))],
                G |-> IF val # 0 THEN G ELSE GNS_deleteName(G, "TEXTURE", p_globalName),
                ret |-> val, fault |-> NoFault]

\* ShareGroup::decTexRefCounterAndReleaseIf0.  With m_globalTextureRefCounter
\* still null the assert fails (or, with asserts compiled out, find() runs on
\* a null map): the call faults.
SG_decTexRefCounterAndReleaseIf0(grp, G, p_globalName) ==
  LET rc == grp.m_globalTextureRefCounter
  IN  IF ~rc.alloc
        THEN [grp |-> grp, G |-> G, ret |-> 0, fault |-> "null_refcounter"]
      ELSE IF ~Has(rc.map, p_globalName)
        THEN [grp |-> grp, G |-> G, ret |-> 0, fault |-> NoFault]
      ELSE LET val == rc.map[p_globalName] - 1
           IN  IF val # 0
                 THEN [grp |-> [grp EXCEPT !.m_globalTextureRefCounter =
                                            NewPtr(Put(rc.map, p_globalName, val))],
                       G |-> G, ret |-> val, fault |-> NoFault]
                 ELSE [grp |-> [grp EXCEPT !.m_globalTextureRefCounter =
                                            NewPtr(Erase(rc.map, p_globalName))],
                       G |-> GNS_deleteName(G, "TEXTURE", p_globalName),
                       ret |-> 0, fault |-> NoFault]

\* ShareGroup::~ShareGroup: every NameSpace is deleted (each releasing the
\* global names of its m_localToGlobalMap), then the two maps.
RECURSIVE DestroyNameSpaces(_, _, _)
DestroyNameSpaces(grp, G, types) ==
  IF types = {} THEN G
  ELSE LET t == CHOOSE x \in types : TRUE
       IN  DestroyNameSpaces(grp, NS_destroy(grp.ns[t], G, t), types \ {t})

\* (mutant) a teardown that keeps the TEXTURE exemption of deleteName
Mutant_Destroy_NoTexture == ObjectTypes \ {"TEXTURE"}

DestroyedTypes == ObjectTypes
SG_destroy(grp, G) == DestroyNameSpaces(grp, G, DestroyedTypes)

\* ------------------------------------------------------------------- state
NumKeys == 2
Keys == 1 .. NumKeys
NoGroup == 0
Free == 0

VARIABLES
  sg,        \* the ShareGroup objects, by identity
  gns,       \* the GlobalNameSpace shared by all groups, with the GL backend
  m_groups,  \* ObjectNameManager::m_groups: group name -> ShareGroupPtr
  holders,   \* ShareGroupPtr copies held outside the registry
  m_lock,    \* ShareGroup::m_lock of each group: the thread holding it
  pc,        \* where each thread stands inside ShareGroup::genName
  fault,     \* whether a call has faulted or hangs (the process is gone)
  last,      \* the last step: the call, its arguments and its result
  ncalls,    \* the number of calls made so far
  used       \* the ShareGroup entry points called so far (where tracked)

vars == <<sg, gns, m_groups, holders, m_lock, pc, fault, last, ncalls, used>>

NoLast ==
  [op |-> "none", grp |-> 0, type |-> "none", local |-> 0, global |-> 0,
   data |-> NoData, key |-> 0, ret |-> 0, genLocal |-> FALSE, found |-> FALSE,
   next |-> 0]

Idle ==
  [at |-> "idle", grp |-> 0, type |-> "none", local |-> 0, genLocal |-> FALSE,
   key |-> 0]

\* (mutant) an AutoLock that does not take the lock
Mutant_AutoLock_NoLock(lock, thread) == lock

\* emugl::Mutex::AutoLock on entry: the thread now holds the lock.
AutoLock(lock, thread) == thread

\* A ShareGroup entry point can run: the group exists and its lock is free.
Ready(g) == fault = NoFault /\ sg[g].status = "alive" /\ m_lock[g] = Free

StartOp(G) == [G EXCEPT !.calls = EmptyBag]

FaultOf(r) == IF r.G.unbound THEN "unbound_delete" ELSE r.fault

\* What the dispatcher may write for a glGen* call of type t.
FreshChoices(t) == IF t \in GLTypes THEN FreeNames(gns.gl, t) ELSE {0}

\* ----------------------------------------------- ShareGroup entry points
\* Each takes m_lock for its whole body, so it is one step for every other
\* thread.  The thread-level steps of genName are further below.
GenName(g, t, p_localName, genLocal) ==
  /\ Ready(g)
  /\ IF GenNameLoops(sg[g], t, genLocal)
       THEN /\ fault' = "genName_loop"
            /\ last' = [NoLast EXCEPT !.op = "genName:loop", !.grp = g, !.type = t,
                          !.local = p_localName, !.genLocal = genLocal,
                          !.next = sg[g].ns[t].m_nextName]
            /\ UNCHANGED <<sg, gns>>
       ELSE \E fresh \in FreshChoices(t) :
              LET r == SG_genName(sg[g], StartOp(gns), t, p_localName, genLocal, fresh)
              IN  /\ sg' = [sg EXCEPT ![g] = r.grp]
                  /\ gns' = r.G
                  /\ fault' = FaultOf(r)
                  /\ last' = [NoLast EXCEPT !.op = "genName", !.grp = g, !.type = t,
                                !.local = p_localName, !.ret = r.ret,
                                !.genLocal = genLocal,
                                !.next = IF t \in ObjectTypes
                                           THEN sg[g].ns[t].m_nextName ELSE 0,
                                !.global = SG_getGlobalName(r.grp, t, r.ret)]
  /\ UNCHANGED <<m_groups, holders, m_lock, pc>>

GenGlobalName(g, t) ==
  /\ Ready(g)
  /\ \E fresh \in FreshChoices(t) :
       LET r == SG_genGlobalName(sg[g], StartOp(gns), t, fresh)
       IN  /\ gns' = r.G
           /\ last' = [NoLast EXCEPT !.op = "genGlobalName", !.grp = g, !.type = t,
                         !.ret = r.ret]
  /\ UNCHANGED <<sg, m_groups, holders, m_lock, pc, fault>>

GetGlobalName(g, t, p_localName) ==
  /\ Ready(g)
  /\ gns' = StartOp(gns)
  /\ last' = [NoLast EXCEPT !.op = "getGlobalName", !.grp = g, !.type = t,
                !.local = p_localName,
                !.ret = SG_getGlobalName(sg[g], t, p_localName)]
  /\ UNCHANGED <<sg, m_groups, holders, m_lock, pc, fault>>

GetLocalName(g, t, p_globalName) ==
  /\ Ready(g)
  /\ gns' = StartOp(gns)
  /\ last' = [NoLast EXCEPT !.op = "getLocalName", !.grp = g, !.type = t,
                !.global = p_globalName,
                !.ret = SG_getLocalName(sg[g], t, p_globalName)]
  /\ UNCHANGED <<sg, m_groups, holders, m_lock, pc, fault>>

IsObject(g, t, p_localName) ==
  /\ Ready(g)
  /\ gns' = StartOp(gns)
  /\ last' = [NoLast EXCEPT !.op = "isObject", !.grp = g, !.type = t,
                !.local = p_localName,
                !.found = SG_isObject(sg[g], t, p_localName)]
  /\ UNCHANGED <<sg, m_groups, holders, m_lock, pc, fault>>

DeleteName(g, t, p_localName) ==
  /\ Ready(g)
  /\ LET r == SG_deleteName(sg[g], StartOp(gns), t, p_localName)
     IN  /\ sg' = [sg EXCEPT ![g] = r.grp]
         /\ gns' = r.G
         /\ fault' = FaultOf(r)
         /\ last' = [NoLast EXCEPT !.op = "deleteName", !.grp = g, !.type = t,
                       !.local = p_localName]
  /\ UNCHANGED <<m_groups, holders, m_lock, pc>>

ReplaceGlobalName(g, t, p_localName, p_globalName) ==
  /\ Ready(g)
  /\ LET r == SG_replaceGlobalName(sg[g], StartOp(gns), t, p_localName, p_globalName)
     IN  /\ sg' = [sg EXCEPT ![g] = r.grp]
         /\ gns' = r.G
         /\ fault' = FaultOf(r)
         /\ last' = [NoLast EXCEPT !.op = "replaceGlobalName", !.grp = g, !.type = t,
                       !.local = p_localName, !.global = p_globalName]
  /\ UNCHANGED <<m_groups, holders, m_lock, pc>>

SetObjectData(g, t, p_localName, data) ==
  /\ Ready(g)
  /\ sg' = [sg EXCEPT ![g] = SG_setObjectData(@, t, p_localName, data)]
  /\ gns' = StartOp(gns)
  /\ last' = [NoLast EXCEPT !.op = "setObjectData", !.grp = g, !.type = t,
                !.local = p_localName, !.data = data]
  /\ UNCHANGED <<m_groups, holders, m_lock, pc, fault>>

GetObjectData(g, t, p_localName) ==
  /\ Ready(g)
  /\ gns' = StartOp(gns)
  /\ last' = [NoLast EXCEPT !.op = "getObjectData", !.grp = g, !.type = t,
                !.local = p_localName,
                !.data = SG_getObjectData(sg[g], t, p_localName)]
  /\ UNCHANGED <<sg, m_groups, holders, m_lock, pc, fault>>

\* (mutant) incTexRefCounter on a ref-count table shared by all groups
Mutant_IncTex_AllGroups(g, p_globalName) ==
  /\ Ready(g)
  /\ sg' = [h \in GroupIds |->
             IF sg[h].status = "alive"
               THEN SG_incTexRefCounter(sg[h], p_globalName).grp ELSE sg[h]]
  /\ last' = [NoLast EXCEPT !.op = "incTexRefCounter", !.grp = g,
                !.global = p_globalName,
                !.ret = SG_incTexRefCounter(sg[g], p_globalName).ret]
  /\ gns' = StartOp(gns)
  /\ UNCHANGED <<m_groups, holders, m_lock, pc, fault>>

IncTexRefCounter(g, p_globalName) ==
  /\ Ready(g)
  /\ LET r == SG_incTexRefCounter(sg[g], p_globalName)
     IN  /\ sg' = [sg EXCEPT ![g] = r.grp]
         /\ last' = [NoLast EXCEPT !.op = "incTexRefCounter", !.grp = g,
                       !.global = p_globalName, !.ret = r.ret]
  /\ gns' = StartOp(gns)
  /\ UNCHANGED <<m_groups, holders, m_lock, pc, fault>>

DecTexRefCounterAndReleaseIf0(g, p_globalName) ==
  /\ Ready(g)
  /\ LET r == SG_decTexRefCounterAndReleaseIf0(sg[g], StartOp(gns), p_globalName)
     IN  /\ sg' = [sg EXCEPT ![g] = r.grp]
         /\ gns' = r.G
         /\ fault' = FaultOf(r)
         /\ last' = [NoLast EXCEPT !.op = "decTexRefCounterAndReleaseIf0", !.grp = g,
                       !.global = p_globalName, !.ret = r.ret]
  /\ UNCHANGED <<m_groups, holders, m_lock, pc>>

\* ------------------------------------- ShareGroup::genName, thread by thread
\* A thread inside genName: it takes m_lock, calls NameSpace::genName, bumps
\* the texture ref count, and lets m_lock go on return.
GenBegin(th, g, t, p_localName, genLocal) ==
  /\ Ready(g)
  /\ pc[th].at = "idle"
  /\ t \in ObjectTypes
  /\ ~GenNameLoops(sg[g], t, genLocal)
  /\ m_lock' = [m_lock EXCEPT ![g] = AutoLock(@, th)]
  /\ pc' = [pc EXCEPT ![th] = [at |-> "NameSpace::genName", grp |-> g, type |-> t,
                               local |-> p_localName, genLocal |-> genLocal]]
  /\ last' = [NoLast EXCEPT !.op = "genName:lock", !.grp = g, !.type = t,
                !.local = p_localName, !.key = th, !.genLocal = genLocal]
  /\ UNCHANGED <<sg, gns, m_groups, holders, fault>>

GenNameSpace(th) ==
  /\ fault = NoFault
  /\ pc[th].at = "NameSpace::genName"
  /\ LET g == pc[th].grp
         t == pc[th].type
     IN  \E fresh \in FreshChoices(t) :
           LET r == SG_genName_ns(sg[g], StartOp(gns), t, pc[th].local,
                                  pc[th].genLocal, fresh)
           IN  /\ sg' = [sg EXCEPT ![g] = r.grp]
               /\ gns' = r.G
               /\ pc' = [pc EXCEPT ![th].at = "incTexRefCounterNoLock",
                                   ![th].local = r.ret]
               /\ last' = [NoLast EXCEPT !.op = "genName:NameSpace", !.grp = g,
                             !.type = t, !.ret = r.ret, !.key = th]
  /\ UNCHANGED <<m_groups, holders, m_lock, fault>>

GenInc(th) ==
  /\ fault = NoFault
  /\ pc[th].at = "incTexRefCounterNoLock"
  /\ LET g == pc[th].grp
         t == pc[th].type
     IN  /\ sg' = [sg EXCEPT ![g] = SG_genName_inc(@, t, pc[th].local)]
         /\ m_lock' = [m_lock EXCEPT ![g] = Free]
         /\ last' = [NoLast EXCEPT !.op = "genName", !.grp = g, !.type = t,
                       !.ret = pc[th].local, !.key = th,
                       !.genLocal = pc[th].genLocal,
                       !.global = SG_getGlobalName(sg[g], t, pc[th].local)]
  /\ pc' = [pc EXCEPT ![th] = Idle]
  /\ gns' = StartOp(gns)
  /\ UNCHANGED <<m_groups, holders, fault>>

\* ------------------------------------------- ShareGroupPtr and the registry
\* The owners of group g: the registry entries and the outside holders.
Owners(reg, hold, g) ==
  Cardinality({k \in Keys : reg[k] = g}) + Cardinality({c \in Clients : hold[c] = g})

\* A ShareGroupPtr to g went away, leaving registry reg and holders hold:
\* ~ShareGroup runs when that was the last owner.
LastOwnerGone(reg, hold, g) == Owners(reg, hold, g) = 0

\* The effect on sg and gns of dropping one owner of g.
DropOwner(reg, hold, g) ==
  IF g # NoGroup /\ sg[g].status = "alive" /\ LastOwnerGone(reg, hold, g)
    THEN /\ sg' = [sg EXCEPT ![g] = DeadShareGroup]
         /\ gns' = SG_destroy(sg[g], StartOp(gns))
         /\ fault' = IF gns'.unbound THEN "unbound_delete" ELSE fault
    ELSE /\ gns' = StartOp(gns)
         /\ UNCHANGED <<sg, fault>>

\* The caller of a registry call keeps the returned pointer in a free slot
\* dst of holders, or (dst = 0) lets the temporary go at once.
Dests == {0} \cup {c \in Clients : holders[c] = NoGroup}
Keep(dst, ret) ==
  IF dst # 0 /\ ret # NoGroup THEN [holders EXCEPT ![dst] = ret] ELSE holders

\* (mutant) a createShareGroup that hands out the first group object again
Mutant_FreshGroup_Reuse == CHOOSE g \in GroupIds : \A h \in GroupIds : g <= h

\* new ShareGroup(...): an object distinct from every group constructed so far.
Unborn == {g \in GroupIds : sg[g].status = "none"}
FreshGroup == CHOOSE g \in Unborn : \A h \in Unborn : g <= h

\* ObjectNameManager::createShareGroup
CreateShareGroup(p_groupName, dst) ==
  /\ fault = NoFault
  /\ IF m_groups[p_groupName] # NoGroup
       THEN /\ holders' = Keep(dst, m_groups[p_groupName])
            /\ last' = [NoLast EXCEPT !.op = "createShareGroup", !.key = p_groupName,
                          !.ret = m_groups[p_groupName]]
            /\ UNCHANGED <<sg, m_groups>>
       ELSE /\ Unborn # {}
            /\ sg' = [sg EXCEPT ![FreshGroup] = NewShareGroup]
            /\ m_groups' = [m_groups EXCEPT ![p_groupName] = FreshGroup]
            /\ holders' = Keep(dst, FreshGroup)
            /\ last' = [NoLast EXCEPT !.op = "createShareGroup", !.key = p_groupName,
                          !.ret = FreshGroup]
  /\ gns' = StartOp(gns)
  /\ UNCHANGED <<m_lock, pc, fault>>

\* ObjectNameManager::getShareGroup
GetShareGroup(p_groupName, dst) ==
  /\ fault = NoFault
  /\ holders' = Keep(dst, m_groups[p_groupName])
  /\ last' = [NoLast EXCEPT !.op = "getShareGroup", !.key = p_groupName,
                !.ret = m_groups[p_groupName]]
  /\ gns' = StartOp(gns)
  /\ UNCHANGED <<sg, m_groups, m_lock, pc, fault>>

\* (mutant) attachShareGroup that never binds the new group name
Mutant_Attach_NoInsert(reg, p_groupName, p_existingGroupName) == reg

\* (mutant) attachShareGroup that rebinds a group name already registered
Mutant_Attach_Overwrite(reg, p_groupName, p_existingGroupName) ==
  IF reg[p_existingGroupName] # NoGroup
    THEN [reg EXCEPT ![p_groupName] = reg[p_existingGroupName]]
    ELSE reg

\* The registry after ObjectNameManager::attachShareGroup
AttachedGroups(reg, p_groupName, p_existingGroupName) ==
  IF reg[p_existingGroupName] # NoGroup /\ reg[p_groupName] = NoGroup
    THEN [reg EXCEPT ![p_groupName] = reg[p_existingGroupName]]
    ELSE reg

\* ObjectNameManager::attachShareGroup
AttachShareGroup(p_groupName, p_existingGroupName, dst) ==
  /\ fault = NoFault
  /\ m_groups' = AttachedGroups(m_groups, p_groupName, p_existingGroupName)
  /\ holders' = Keep(dst, m_groups[p_existingGroupName])
  /\ last' = [NoLast EXCEPT !.op = "attachShareGroup", !.key = p_groupName,
                !.local = p_existingGroupName,
                !.ret = m_groups[p_existingGroupName]]
  /\ gns' = StartOp(gns)
  /\ UNCHANGED <<sg, m_lock, pc, fault>>

\* (mutant) deleteShareGroup that erases every group name of the group
Mutant_Erase_Cascade(reg, p_groupName) ==
  [k \in Keys |-> IF reg[k] = reg[p_groupName] THEN NoGroup ELSE reg[k]]

\* The registry after ObjectNameManager::deleteShareGroup
ErasedGroups(reg, p_groupName) == [reg EXCEPT ![p_groupName] = NoGroup]

\* ObjectNameManager::deleteShareGroup: erasing the entry destroys its
\* ShareGroupPtr, and with it the group when that was the last owner.
DeleteShareGroup(p_groupName) ==
  /\ fault = NoFault
  /\ m_groups' = ErasedGroups(m_groups, p_groupName)
  /\ DropOwner(m_groups', holders, m_groups[p_groupName])
  /\ last' = [NoLast EXCEPT !.op = "deleteShareGroup", !.key = p_groupName,
                !.ret = m_groups[p_groupName]]
  /\ UNCHANGED <<holders, m_lock, pc>>

\* ------------------------ ObjectNameManager::deleteShareGroup, thread by thread
\* Where a thread stands tells which locks it holds.  deleteShareGroup takes
\* the registry lock on entry and lets it go on return; m_groups.erase(s)
\* destroys the entry's ShareGroupPtr, and when that was the last owner
\* ~ShareGroup runs inside the erase: it takes the group's m_lock, and each
\* ~NameSpace calls GlobalNameSpace::deleteName, which takes the
\* GlobalNameSpace lock for every type but SHADER.
InDeleteShareGroup ==
  {"deleteShareGroup", "~ShareGroup", "delete m_nameSpace", "GlobalNameSpace::deleteName"}

HoldsRegistryLock(th) == pc[th].at \in InDeleteShareGroup
HoldsGroupLock(th) == \E g \in GroupIds : m_lock[g] = th
HoldsGlobalLock(th) == pc[th].at = "GlobalNameSpace::deleteName"

RegistryLockFree == \A th \in Threads : ~HoldsRegistryLock(th)
GlobalLockFree == \A th \in Threads : ~HoldsGlobalLock(th)

\* Whether ~NameSpace of some NameSpace of the group reaches the locked part
\* of GlobalNameSpace::deleteName.
HasLockedDeletes(grp) == \E t \in GLTypes : grp.ns[t].l2g # EmptyMap

\* emugl::Mutex::AutoLock _lock(m_lock) of the registry
DelBegin(th, p_groupName) ==
  /\ fault = NoFault
  /\ pc[th].at = "idle"
  /\ RegistryLockFree
  /\ pc' = [pc EXCEPT ![th] = [Idle EXCEPT !.at = "deleteShareGroup",
                                           !.key = p_groupName]]
  /\ last' = [NoLast EXCEPT !.op = "deleteShareGroup:lock", !.key = p_groupName]
  /\ gns' = StartOp(gns)
  /\ UNCHANGED <<sg, m_groups, holders, m_lock, fault>>

\* m_groups.find / m_groups.erase(s): the entry goes; the thread returns
\* (letting the registry lock go) unless the group's last owner went with it.
DelErase(th) ==
  /\ fault = NoFault
  /\ pc[th].at = "deleteShareGroup"
  /\ LET k == pc[th].key
         g == m_groups[k]
     IN  /\ m_groups' = ErasedGroups(m_groups, k)
         /\ IF g # NoGroup /\ sg[g].status = "alive"
                /\ LastOwnerGone(m_groups', holders, g)
              THEN /\ pc' = [pc EXCEPT ![th].at = "~ShareGroup", ![th].grp = g]
                   /\ last' = [NoLast EXCEPT !.op = "deleteShareGroup:erase",
                                 !.key = k, !.ret = g]
              ELSE /\ pc' = [pc EXCEPT ![th] = Idle]
                   /\ last' = [NoLast EXCEPT !.op = "deleteShareGroup",
                                 !.key = k, !.ret = g]
  /\ gns' = StartOp(gns)
  /\ UNCHANGED <<sg, holders, m_lock, fault>>

\* ~ShareGroup: emugl::Mutex::AutoLock _lock(m_lock) of the group
DelLockGroup(th) ==
  /\ fault = NoFault
  /\ pc[th].at = "~ShareGroup"
  /\ m_lock[pc[th].grp] = Free
  /\ m_lock' = [m_lock EXCEPT ![pc[th].grp] = AutoLock(@, th)]
  /\ pc' = [pc EXCEPT ![th].at = "delete m_nameSpace"]
  /\ last' = [NoLast EXCEPT !.op = "~ShareGroup:lock", !.grp = pc[th].grp]
  /\ gns' = StartOp(gns)
  /\ UNCHANGED <<sg, m_groups, holders, fault>>

\* The first ~NameSpace with a name of a GL type: GlobalNameSpace::deleteName
\* takes the GlobalNameSpace lock.
DelLockGlobal(th) ==
  /\ fault = NoFault
  /\ pc[th].at = "delete m_nameSpace"
  /\ HasLockedDeletes(sg[pc[th].grp])
  /\ GlobalLockFree
  /\ pc' = [pc EXCEPT ![th].at = "GlobalNameSpace::deleteName"]
  /\ last' = [NoLast EXCEPT !.op = "GlobalNameSpace::deleteName:lock",
                !.grp = pc[th].grp]
  /\ gns' = StartOp(gns)
  /\ UNCHANGED <<sg, m_groups, holders, m_lock, fault>>

\* The rest of ~ShareGroup and the return of deleteShareGroup: the names are
\* released, the group is gone, and all locks are let go.
DelEnd(th) ==
  /\ fault = NoFault
  /\ \/ pc[th].at = "GlobalNameSpace::deleteName"
     \/ pc[th].at = "delete m_nameSpace" /\ ~HasLockedDeletes(sg[pc[th].grp])
  /\ LET g == pc[th].grp
     IN  /\ sg' = [sg EXCEPT ![g] = DeadShareGroup]
         /\ gns' = SG_destroy(sg[g], StartOp(gns))
         /\ fault' = IF gns'.unbound THEN "unbound_delete" ELSE fault
         /\ m_lock' = [m_lock EXCEPT ![g] = Free]
         /\ last' = [NoLast EXCEPT !.op = "deleteShareGroup", !.key = pc[th].key,
                       !.ret = g]
  /\ pc' = [pc EXCEPT ![th] = Idle]
  /\ UNCHANGED <<m_groups, holders>>

\* An outside holder lets go of its ShareGroupPtr.
ReleaseHolder(c) ==
  /\ fault = NoFault
  /\ holders[c] # NoGroup
  /\ holders' = [holders EXCEPT ![c] = NoGroup]
  /\ DropOwner(m_groups, holders', holders[c])
  /\ last' = [NoLast EXCEPT !.op = "release", !.grp = holders[c], !.key = c]
  /\ UNCHANGED <<m_groups, m_lock, pc>>

\* ------------------------------------------------------------ specifications
\* Spec: one ShareGroup, held by one outside holder; the name and texture
\* reference calls of the group, and the holder letting the group go.
SpecTypes == {"TEXTURE", "FRAMEBUFFER"}
\* (p_localName, genLocal) of a genName call: a generated name, or a requested one.
GenRequests == {<<0, TRUE>>} \cup {<<l, FALSE>> : l \in 1 .. 2}

InitOne ==
  /\ sg = [g \in GroupIds |-> IF g = 1 THEN NewShareGroup ELSE NoShareGroup]
  /\ gns = NewGlobalNameSpace
  /\ m_groups = [k \in Keys |-> NoGroup]
  /\ holders = [c \in Clients |-> IF c = 1 THEN 1 ELSE NoGroup]
  /\ m_lock = [g \in GroupIds |-> Free]
  /\ pc = [t \in Threads |-> Idle]
  /\ fault = NoFault
  /\ last = NoLast
  /\ ncalls = 0
  /\ used = {}

Init == InitOne

\* One more call, within the run's budget of calls.
Budget == ncalls < MaxCalls /\ ncalls' = ncalls + 1
Call == Budget /\ UNCHANGED used
\* Keeping track of which entry points have been called.
Track == used' = used \cup {last'.op}

GroupCalls ==
  \/ \E t \in SpecTypes, rq \in GenRequests : GenName(1, t, rq[1], rq[2])
  \/ \E t \in SpecTypes, l \in 1 .. 2 : DeleteName(1, t, l)
  \/ \E t \in SpecTypes, l \in 1 .. 2, n \in 1 .. MaxGlobal :
       ReplaceGlobalName(1, t, l, n)
  \/ \E n \in 1 .. MaxGlobal : IncTexRefCounter(1, n)
  \/ \E n \in 1 .. MaxGlobal : DecTexRefCounterAndReleaseIf0(1, n)
  \/ ReleaseHolder(1)

Next == Call /\ GroupCalls

Spec == Init /\ [][Next]_vars

\* SpecNames: one NameSpace at a time, through genName and deleteName only.
NameTypes == {"TEXTURE", "FRAMEBUFFER", "SHADER"}

NameCalls ==
  \/ \E t \in NameTypes, rq \in GenRequests : GenName(1, t, rq[1], rq[2])
  \/ \E t \in NameTypes, l \in 1 .. 2 : DeleteName(1, t, l)

NextNames == Call /\ NameCalls

SpecNames == Init /\ [][NextNames]_vars

\* SpecData: one ShareGroup; names and the object data kept under them.
ObjectData == {"d1", "d2"}

DataCalls ==
  \/ \E t \in SpecTypes, rq \in GenRequests : GenName(1, t, rq[1], rq[2])
  \/ \E t \in SpecTypes, l \in 1 .. 2 : DeleteName(1, t, l)
  \/ \E t \in SpecTypes, l \in 1 .. 2, d \in ObjectData : SetObjectData(1, t, l, d)
  \/ \E t \in SpecTypes, l \in 1 .. 2 : GetObjectData(1, t, l)

NextData == Call /\ DataCalls

SpecData == Init /\ [][NextData]_vars

\* SpecThreads: threads calling into one ShareGroup's TEXTURE names, genName
\* taken step by step; every other entry point holds the lock for its whole
\* body and is one step.  A thread that is inside genName makes no other call.
SomeThreadIdle == \E th \in Threads : pc[th].at = "idle"

ThreadCalls ==
  \/ \E th \in Threads, rq \in GenRequests : GenBegin(th, 1, "TEXTURE", rq[1], rq[2])
  \/ \E l \in 1 .. 2 : SomeThreadIdle /\ DeleteName(1, "TEXTURE", l)
  \/ \E l \in 1 .. 2, n \in 1 .. MaxGlobal :
       SomeThreadIdle /\ ReplaceGlobalName(1, "TEXTURE", l, n)
  \/ \E n \in 1 .. MaxGlobal : SomeThreadIdle /\ IncTexRefCounter(1, n)
  \/ \E n \in 1 .. MaxGlobal : SomeThreadIdle /\ DecTexRefCounterAndReleaseIf0(1, n)

ThreadSteps ==
  \/ \E th \in Threads : GenNameSpace(th)
  \/ \E th \in Threads : GenInc(th)

NextThreads ==
  \/ Budget /\ ThreadCalls /\ Track
  \/ ThreadSteps /\ UNCHANGED <<ncalls, used>>

SpecThreads == Init /\ [][NextThreads]_vars

\* SpecRegistry: the ObjectNameManager from an empty registry; groups are
\* created, aliased, looked up and removed, callers keep or drop the pointers
\* they get, and names are generated in the groups that exist.
InitRegistry ==
  /\ sg = [g \in GroupIds |-> NoShareGroup]
  /\ gns = NewGlobalNameSpace
  /\ m_groups = [k \in Keys |-> NoGroup]
  /\ holders = [c \in Clients |-> NoGroup]
  /\ m_lock = [g \in GroupIds |-> Free]
  /\ pc = [t \in Threads |-> Idle]
  /\ fault = NoFault
  /\ last = NoLast
  /\ ncalls = 0
  /\ used = {}

RegistryCalls ==
  \/ \E k \in Keys, dst \in Dests : CreateShareGroup(k, dst)
  \/ \E k \in Keys, dst \in Dests : GetShareGroup(k, dst)
  \/ \E k \in Keys, ek \in Keys, dst \in Dests : AttachShareGroup(k, ek, dst)
  \/ \E k \in Keys : DeleteShareGroup(k)
  \/ \E c \in Clients : ReleaseHolder(c)
  \/ \E g \in GroupIds, t \in SpecTypes : GenName(g, t, 0, TRUE)

NextRegistry == Call /\ RegistryCalls

SpecRegistry == InitRegistry /\ [][NextRegistry]_vars

\* SpecZero: one ShareGroup whose callers also pass local name 0 to the
\* entry points that take a local name.
ZeroRequests == GenRequests \cup {<<0, FALSE>>}

ZeroCalls ==
  \/ \E t \in SpecTypes, rq \in ZeroRequests : GenName(1, t, rq[1], rq[2])
  \/ \E t \in SpecTypes, l \in 0 .. 2 : DeleteName(1, t, l)
  \/ \E t \in SpecTypes, l \in 0 .. 2, n \in 1 .. MaxGlobal :
       ReplaceGlobalName(1, t, l, n)

NextZero == Call /\ ZeroCalls

SpecZero == Init /\ [][NextZero]_vars

\* SpecRange: one ShareGroup; every entry point that takes a type, called
\* with TEXTURE and with a type value that is not below NUM_OBJECT_TYPES.
RangeTypes == {"TEXTURE", OutOfRangeType}

RangeCalls ==
  \/ \E t \in RangeTypes, rq \in GenRequests : GenName(1, t, rq[1], rq[2])
  \/ \E t \in RangeTypes : GenGlobalName(1, t)
  \/ \E t \in RangeTypes, l \in 1 .. 2 : GetGlobalName(1, t, l)
  \/ \E t \in RangeTypes, n \in 1 .. MaxGlobal : GetLocalName(1, t, n)
  \/ \E t \in RangeTypes, l \in 1 .. 2 : IsObject(1, t, l)
  \/ \E t \in RangeTypes, l \in 1 .. 2 : DeleteName(1, t, l)
  \/ \E t \in RangeTypes, l \in 1 .. 2, n \in 1 .. MaxGlobal :
       ReplaceGlobalName(1, t, l, n)
  \/ \E t \in RangeTypes, l \in 1 .. 2, d \in ObjectData : SetObjectData(1, t, l, d)
  \/ \E t \in RangeTypes, l \in 1 .. 2 : GetObjectData(1, t, l)

NextRange == Call /\ RangeCalls

SpecRange == Init /\ [][NextRange]_vars

\* SpecGroups: the state after createShareGroup of every group name the
\* bounds allow, each name with a group of its own; then the calls of each
\* group on its TEXTURE names, object data and ref counts, and the removal
\* of group names.
InitGroups ==
  /\ sg = [g \in GroupIds |-> IF g \in Keys THEN NewShareGroup ELSE NoShareGroup]
  /\ gns = NewGlobalNameSpace
  /\ m_groups = [k \in Keys |-> IF k \in GroupIds THEN k ELSE NoGroup]
  /\ holders = [c \in Clients |-> NoGroup]
  /\ m_lock = [g \in GroupIds |-> Free]
  /\ pc = [t \in Threads |-> Idle]
  /\ fault = NoFault
  /\ last = NoLast
  /\ ncalls = 0
  /\ used = {}

GroupsCalls ==
  \/ \E g \in GroupIds : GenName(g, "TEXTURE", 0, TRUE)
  \/ \E g \in GroupIds : DeleteName(g, "TEXTURE", 1)
  \/ \E g \in GroupIds : ReplaceGlobalName(g, "TEXTURE", 1, 1)
  \/ \E g \in GroupIds : SetObjectData(g, "TEXTURE", 1, "d1")
  \/ \E g \in GroupIds : IncTexRefCounter(g, 1)
  \/ \E g \in GroupIds : DecTexRefCounterAndReleaseIf0(g, 1)
  \/ \E k \in Keys : DeleteShareGroup(k)

NextGroups == Call /\ GroupsCalls

SpecGroups == InitGroups /\ [][NextGroups]_vars

\* SpecLocks: threads calling into the registry and the groups, with
\* deleteShareGroup taken lock by lock.  createShareGroup, genName and the
\* release of a holder run to their end in one step, when the locks they
\* take are free; a group is called only while somebody owns it.
Owned(g) == Owners(m_groups, holders, g) >= 1

LockCalls ==
  \/ \E k \in Keys, dst \in Dests : RegistryLockFree /\ CreateShareGroup(k, dst)
  \/ \E g \in GroupIds, t \in SpecTypes :
       Owned(g) /\ GlobalLockFree /\ GenName(g, t, 0, TRUE)
  \/ \E c \in Clients : GlobalLockFree /\ ReleaseHolder(c)
  \/ \E th \in Threads, k \in Keys : DelBegin(th, k)

LockSteps ==
  \/ \E th \in Threads : DelErase(th)
  \/ \E th \in Threads : DelLockGroup(th)
  \/ \E th \in Threads : DelLockGlobal(th)
  \/ \E th \in Threads : DelEnd(th)

NextLocks ==
  \/ Call /\ LockCalls
  \/ LockSteps /\ UNCHANGED <<ncalls, used>>

SpecLocks == InitRegistry /\ [][NextLocks]_vars

\* SpecCounter: one NameSpace (SHADER, whose names need no backend name)
\* filled and emptied by generated names, requested names and deletions,
\* for enough calls to fill the counter's range and wrap it.
CounterBudget == ncalls < MaxCalls + NameMod /\ ncalls' = ncalls + 1

CounterCalls ==
  \/ GenName(1, "SHADER", 0, TRUE)
  \/ \E l \in 1 .. (NameMod - 1) : GenName(1, "SHADER", l, FALSE)
  \/ \E l \in 1 .. (NameMod - 1) : DeleteName(1, "SHADER", l)

NextCounter == CounterBudget /\ CounterCalls /\ UNCHANGED used

SpecCounter == Init /\ [][NextCounter]_vars

\* ---------------------------------------------------------------- properties
TexNS(g) == sg[g].ns["TEXTURE"]
Alive == {g \in GroupIds : sg[g].status = "alive"}
\* The GlobalNameSpace::deleteName calls of the step just taken.
Calls == BagToSet(gns.calls)
TexCalls == {c \in Calls : c[1] = "TEXTURE"}

\* C1: a texture global name that genName(TEXTURE, ...) produces, and that
\* has no ref-count entry yet, has count exactly 1 right after the call;
\* incTexRefCounter returns and stores the count plus one; a release of a
\* name with count c >= 2 returns and stores c - 1 and makes no backend
\* call; the release at count 1 returns 0, leaves the name absent from the
\* ref-count table and calls the backend delete for (TEXTURE, g) exactly once.
C1_Step ==
  LET g == last'.grp
      n == last'.global
      c == RefCountOf(sg[g], n)
      c2 == RefCountOf(sg'[g], n)
  IN  /\ (last'.op = "genName" /\ last'.type = "TEXTURE" /\ c = 0)
           => c2 = 1 /\ Has(sg'[g].m_globalTextureRefCounter.map, n)
      /\ last'.op = "incTexRefCounter" => c2 = c + 1 /\ last'.ret = c + 1
      /\ (last'.op = "decTexRefCounterAndReleaseIf0" /\ c >= 2)
           => c2 = c - 1 /\ last'.ret = c - 1 /\ gns'.calls = EmptyBag
      /\ (last'.op = "decTexRefCounterAndReleaseIf0" /\ c = 1)
           => /\ last'.ret = 0
              /\ ~Has(sg'[g].m_globalTextureRefCounter.map, n)
              /\ gns'.calls = SetToBag({<<"TEXTURE", n>>})
              /\ n \notin gns'.gl.live["TEXTURE"]

C1_RefCountLifeCycle == [][C1_Step]_vars

\* C1 witness: gen, acquire, release, release: the final release of a
\* generated texture name returned 0 with one backend delete.
C1_Witness ==
  /\ last.op = "decTexRefCounterAndReleaseIf0" /\ last.ret = 0
  /\ ncalls = 4
  /\ last.global \in Range(TexNS(1).l2g)
  /\ gns.calls = SetToBag({<<"TEXTURE", last.global>>})
  /\ ~Has(sg[1].m_globalTextureRefCounter.map, last.global)
  /\ gns.gl.live["TEXTURE"] = {}

\* C2: in every NameSpace the two maps are exact inverses: (l, g) is in
\* m_localToGlobalMap iff (g, l) is in m_globalToLocalMap, and no two local
\* names map to the same global name.
Inverse(ns) ==
  /\ \A l \in DOMAIN ns.l2g : Has(ns.g2l, ns.l2g[l]) /\ ns.g2l[ns.l2g[l]] = l
  /\ \A n \in DOMAIN ns.g2l : Has(ns.l2g, ns.g2l[n]) /\ ns.l2g[ns.g2l[n]] = n

C2_MapsAreInverses ==
  \A g \in Alive : \A t \in ObjectTypes : Inverse(sg[g].ns[t])

\* C5: a global name the backend handed out is passed to the backend delete
\* at most once: every delete call for such a name finds it still in use,
\* and no call passes it twice.
C5_Step ==
  \A c \in BagToSet(gns'.calls) :
    (c[1] \in GLTypes /\ c[2] \in gns.gl.handed[c[1]])
      => c[2] \in gns.gl.live[c[1]] /\ CopiesIn(c, gns'.calls) = 1

C5_DeletedAtMostOnce == [][C5_Step]_vars

\* C6 as claimed: a backend delete for a TEXTURE name happens only in a
\* decTexRefCounterAndReleaseIf0 call that takes the name's count from 1 to 0.
ByLastRelease(n) ==
  /\ last'.op = "decTexRefCounterAndReleaseIf0"
  /\ last'.global = n
  /\ last'.ret = 0
  /\ RefCountOf(sg[last'.grp], n) = 1

C6_OnlyLastRelease ==
  [][\A c \in BagToSet(gns'.calls) : c[1] = "TEXTURE" => ByLastRelease(c[2])]_vars

\* C6, amended: ... or in the destruction of a group whose TEXTURE NameSpace
\* still holds the name; deleteName and replaceGlobalName never release it.
ByDestruction(n) ==
  \E g \in GroupIds :
    /\ sg[g].status = "alive" /\ sg'[g].status = "destroyed"
    /\ n \in Range(TexNS(g).l2g)

C6_OnlyLastReleaseOrDestruction ==
  [][\A c \in BagToSet(gns'.calls) :
       c[1] = "TEXTURE" => ByLastRelease(c[2]) \/ ByDestruction(c[2])]_vars

\* C6 witness: a present texture name was deleted from the table, or rebound,
\* while its global name stays in use at the backend.
C6_Witness ==
  /\ last.op \in {"deleteName", "replaceGlobalName"} /\ last.type = "TEXTURE"
  /\ gns.calls = EmptyBag
  /\ \E n \in gns.gl.live["TEXTURE"] :
       n \notin Range(TexNS(1).l2g) /\ RefCountOf(sg[1], n) = 1

\* C9 as claimed: deleteName(type, L) with L absent from the type's NameSpace
\* changes nothing in the group and makes no backend call.
AbsentDelete ==
  /\ last'.op = "deleteName"
  /\ last'.type \in ObjectTypes
  /\ ~NS_isObject(sg[last'.grp].ns[last'.type], last'.local)

C9_AbsentDeleteIsNoOp ==
  [][AbsentDelete => sg' = sg /\ gns'.calls = EmptyBag /\ gns'.gl = gns.gl]_vars

\* C9, amended: deleteName(type, L) with L absent leaves the name maps and
\* the texture ref counts unchanged and makes no backend call; of the object
\* data it erases the entry of (type, L), if there is one, and nothing else.
C9_AbsentDeleteErasesOnlyData ==
  [][AbsentDelete =>
       LET g == last'.grp
           od == sg[g].m_objectsData
       IN  /\ sg'[g].ns = sg[g].ns
           /\ sg'[g].m_globalTextureRefCounter = sg[g].m_globalTextureRefCounter
           /\ sg'[g].status = sg[g].status
           /\ sg'[g].m_objectsData.alloc = od.alloc
           /\ sg'[g].m_objectsData.map =
                Erase(od.map, TypedObjectName(last'.type, last'.local))
           /\ \A h \in GroupIds \ {g} : sg'[h] = sg[h]
           /\ gns'.calls = EmptyBag /\ gns'.gl = gns.gl]_vars

\* C9 witness: setObjectData(t, L, d) on a name that was never generated, then
\* deleteName(t, L): the data is gone while other data stays.
C9_Witness ==
  /\ last.op = "deleteName" /\ ncalls = 3
  /\ sg[1].m_objectsData.alloc
  /\ Cardinality(DOMAIN sg[1].m_objectsData.map) = 1
  /\ \A t \in ObjectTypes : sg[1].ns[t].l2g = EmptyMap /\ sg[1].ns[t].m_nextName = 0
  /\ gns.calls = EmptyBag

\* C10: right after setObjectData(type, local, data) with an in-range type,
\* getObjectData(type, local) returns that data.
C10_SetThenGet ==
  (last.op = "setObjectData" /\ last.type \in ObjectTypes)
    => SG_getObjectData(sg[last.grp], last.type, last.local) = last.data

\* Every local name of the TEXTURE NameSpace maps to a global name that has
\* a ref-count entry with count >= 1.
TexNamesReferenced(g) ==
  \A l \in DOMAIN TexNS(g).l2g : RefCountOf(sg[g], TexNS(g).l2g[l]) >= 1

\* C3 as claimed: whenever the group lock is free, every texture name in the
\* table has a ref count >= 1, whatever entry points were interleaved.
C3_NoUnreferencedTexName ==
  \A g \in Alive : m_lock[g] = Free => TexNamesReferenced(g)

\* C3, amended: whenever the group lock is free, and only genName, deleteName
\* and incTexRefCounter have been called so far, every texture name in the
\* table has a ref count >= 1 (decTexRefCounterAndReleaseIf0 and
\* replaceGlobalName can leave a name in the table without a reference).
KeepReferenced == {"genName:lock", "deleteName", "incTexRefCounter"}

C3_GenNameIsAtomic ==
  \A g \in Alive : (m_lock[g] = Free /\ used \subseteq KeepReferenced)
                      => TexNamesReferenced(g)

\* C3 witness: two genName calls have completed, the lock is free and both
\* names are in the table with their references.
C3_Witness ==
  /\ m_lock[1] = Free
  /\ used \subseteq KeepReferenced
  /\ last.op = "genName"
  /\ Cardinality(DOMAIN TexNS(1).l2g) = 2
  /\ TexNamesReferenced(1)

\* What a caller sees of a group through the lookups of one type.
Lookups(grp, t) ==
  [global  |-> [l \in LocalNames |-> SG_getGlobalName(grp, t, l)],
   local   |-> [n \in GlobalNames |-> SG_getLocalName(grp, t, n)],
   present |-> [l \in LocalNames |-> SG_isObject(grp, t, l)]]

\* C4 as claimed: after attachShareGroup(key, existingKey) with existingKey
\* registered, both group names resolve to the same ShareGroup.
C4_AttachAliases ==
  (last.op = "attachShareGroup" /\ last.ret # NoGroup)
    => m_groups[last.key] = m_groups[last.local]

\* C4, amended: ... with existingKey registered and key not registered (or
\* already bound to the group of existingKey), both names resolve to the
\* ShareGroup that was returned; and a name that genName then generates in
\* the group is seen by the lookups through every group name bound to it.
C4_Step ==
  /\ LET k  == last'.key
         ek == last'.local
     IN  (/\ last'.op = "attachShareGroup"
          /\ m_groups[ek] # NoGroup
          /\ m_groups[k] \in {NoGroup, m_groups[ek]})
           => /\ m_groups'[k] = m_groups[ek]
              /\ m_groups'[ek] = m_groups[ek]
              /\ last'.ret = m_groups[ek]
              /\ \A t \in ObjectTypes :
                   Lookups(sg'[m_groups'[k]], t) = Lookups(sg'[m_groups'[ek]], t)
  /\ (last'.op = "genName" /\ last'.type \in GLTypes)
       => \A k \in Keys :
            m_groups[k] = last'.grp
              => LET v == Lookups(sg'[m_groups'[k]], last'.type)
                 IN  /\ v.present[last'.ret]
                     /\ v.global[last'.ret] = last'.global
                     /\ v.local[last'.global] = last'.ret
                     /\ last'.global # 0

C4_AttachAliasesUnboundKey == [][C4_Step]_vars

\* C4 witness: a name generated in a group that two group names resolve to.
C4_Witness ==
  /\ last.op = "genName" /\ last.ret # 0
  /\ m_groups[1] = last.grp /\ m_groups[2] = last.grp
  /\ SG_isObject(sg[m_groups[1]], last.type, last.ret)
  /\ SG_getLocalName(sg[m_groups[2]], last.type, last.global) = last.ret

\* C7: deleteShareGroup(key) leaves key unregistered (getShareGroup(key) is
\* empty), changes no other registry entry, and every group still reached
\* through another group name stays alive and unchanged.
C7_Step ==
  last'.op = "deleteShareGroup"
    => LET k == last'.key
       IN  /\ m_groups'[k] = NoGroup
           /\ \A k2 \in Keys \ {k} : m_groups'[k2] = m_groups[k2]
           /\ holders' = holders
           /\ \A k2 \in Keys \ {k} :
                m_groups[k2] # NoGroup
                  => /\ sg'[m_groups[k2]] = sg[m_groups[k2]]
                     /\ sg'[m_groups[k2]].status = "alive"
           /\ (\E k2 \in Keys \ {k} : m_groups[k2] = m_groups[k])
                => gns'.calls = EmptyBag /\ gns'.gl = gns.gl

C7_DeleteRemovesOnlyTheKey == [][C7_Step]_vars

\* C7 witness: a group name of a group with names in it was removed and
\* another group name still resolves to the group.
C7_Witness ==
  /\ last.op = "deleteShareGroup" /\ last.ret # NoGroup
  /\ m_groups[last.key] = NoGroup
  /\ \E k2 \in Keys : m_groups[k2] = last.ret
  /\ sg[last.ret].status = "alive"
  /\ \E t \in ObjectTypes : sg[last.ret].ns[t].l2g # EmptyMap

\* The GlobalNameSpace::deleteName calls ~ShareGroup makes for a group: one
\* per entry of each NameSpace's m_localToGlobalMap.
RECURSIVE BagOfNames(_, _)
BagOfNames(grp, pairs) ==
  IF pairs = {} THEN EmptyBag
  ELSE LET p == CHOOSE x \in pairs : TRUE
       IN  SetToBag({<<p[1], grp.ns[p[1]].l2g[p[2]]>>}) (+) BagOfNames(grp, pairs \ {p})

HeldNames(grp) ==
  BagOfNames(grp, {p \in ObjectTypes \X LocalNames : Has(grp.ns[p[1]].l2g, p[2])})

\* C8: a group is alive exactly while a registry entry or an outside holder
\* owns it; it is destroyed in the step that removes its last owner; and the
\* step that destroys it passes every global name of every NameSpace's
\* m_localToGlobalMap, TEXTURE included, to GlobalNameSpace::deleteName, after
\* which none of those backend names is in use.
C8_Step ==
  \A g \in GroupIds :
    /\ sg'[g].status = "alive" => Owners(m_groups', holders', g) >= 1
    /\ (sg[g].status = "alive" /\ sg'[g].status # "alive")
         => /\ sg'[g].status = "destroyed"
            /\ Owners(m_groups, holders, g) = 1
            /\ Owners(m_groups', holders', g) = 0
            /\ gns'.calls = HeldNames(sg[g])
            /\ \A t \in GLTypes :
                 Range(sg[g].ns[t].l2g) \cap gns'.gl.live[t] = {}
    /\ (sg[g].status = "alive" /\ Owners(m_groups', holders', g) = 0)
         => sg'[g].status = "destroyed"

C8_DestroyedWithLastOwner == [][C8_Step]_vars

\* C8 witness: a group outlived its registry entry through an outside holder
\* and was destroyed when the holder let go, releasing a texture name.
C8_Witness ==
  /\ last.op = "release"
  /\ sg[last.grp].status = "destroyed"
  /\ \E c \in Calls : c[1] = "TEXTURE"
  /\ \A k \in Keys : m_groups[k] = NoGroup
  /\ gns.gl.live["TEXTURE"] = {}
  /\ gns.gl.handed["TEXTURE"] # {}

\* C11: local name 0 is never assigned: a genName call with genLocal = true
\* returns a nonzero local name that was absent from the NameSpace before
\* the call, and after every public call no NameSpace has an entry for 0.
C11_Step ==
  /\ (last'.op = "genName" /\ last'.genLocal /\ last'.type \in ObjectTypes)
       => /\ last'.ret # 0
          /\ ~Has(sg[last'.grp].ns[last'.type].l2g, last'.ret)
  /\ \A g \in GroupIds, t \in ObjectTypes : ~Has(sg'[g].ns[t].l2g, 0)

C11_ZeroNeverAssigned == [][C11_Step]_vars

\* The entry points of ShareGroup that take a NamedObjectType.
TypedEntryPoints ==
  {"genName", "genGlobalName", "getGlobalName", "getLocalName", "isObject",
   "deleteName", "replaceGlobalName", "setObjectData", "getObjectData"}

\* C12: an entry point called with a type value >= NUM_OBJECT_TYPES returns
\* its sentinel (0, false, or the empty ObjectDataPtr) and leaves the name
\* tables, the object data, the ref counts and the backend as they were,
\* with no GlobalNameSpace::deleteName call and no fault.
C12_Step ==
  (last'.op \in TypedEntryPoints /\ last'.type = OutOfRangeType)
    => /\ last'.ret = 0
       /\ last'.found = FALSE
       /\ last'.op = "getObjectData" => last'.data = NoData
       /\ sg' = sg
       /\ gns'.gl = gns.gl
       /\ gns'.m_deleteInitialized = gns.m_deleteInitialized
       /\ gns'.calls = EmptyBag
       /\ fault' = fault

C12_OutOfRangeTypeIsRejected == [][C12_Step]_vars

\* C12 witness: setObjectData with an out-of-range type was called on a
\* group that holds a texture name with object data under it, and the data
\* the group holds is what it held.
C12_Witness ==
  /\ last.op = "setObjectData" /\ last.type = OutOfRangeType
  /\ TexNS(1).l2g # EmptyMap
  /\ sg[1].m_objectsData.alloc
  /\ DOMAIN sg[1].m_objectsData.map = {TypedObjectName("TEXTURE", last.local)}
  /\ sg[1].m_objectsData.map[TypedObjectName("TEXTURE", last.local)] # last.data

\* C13: decTexRefCounterAndReleaseIf0(g) for a global name g that has no
\* ref-count entry returns 0, changes nothing, makes no backend call and
\* does not fault, in every reachable state of the group, a fresh group
\* included.
C13_Step ==
  (/\ last'.op = "decTexRefCounterAndReleaseIf0"
   /\ ~Has(sg[last'.grp].m_globalTextureRefCounter.map, last'.global))
    => /\ last'.ret = 0
       /\ sg' = sg
       /\ gns'.gl = gns.gl
       /\ gns'.calls = EmptyBag
       /\ fault' = NoFault

C13_ReleaseOfUnknownNameIsNoOp == [][C13_Step]_vars

\* C14: attachShareGroup(key, existingKey) changes the registry only by
\* adding key -> group(existingKey) when existingKey is registered and key
\* is not.  With existingKey unregistered it returns empty and registers
\* nothing; with key already registered the binding of key stays and the
\* group of existingKey is returned.  No group is created, changed or
\* destroyed by the call.
C14_Step ==
  last'.op = "attachShareGroup"
    => LET k  == last'.key
           ek == last'.local
       IN  /\ sg' = sg
           /\ last'.ret = m_groups[ek]
           /\ \A k2 \in Keys \ {k} : m_groups'[k2] = m_groups[k2]
           /\ m_groups[ek] = NoGroup
                => last'.ret = NoGroup /\ m_groups' = m_groups /\ holders' = holders
           /\ (m_groups[ek] # NoGroup /\ m_groups[k] # NoGroup)
                => m_groups' = m_groups
           /\ (m_groups[ek] # NoGroup /\ m_groups[k] = NoGroup)
                => m_groups'[k] = m_groups[ek]

C14_AttachOnlyAddsTheKey == [][C14_Step]_vars

\* C14 witness: attachShareGroup was called with a key that is registered
\* to another group than existingKey's: the other group was returned and
\* the key kept its own.
C14_Witness ==
  /\ last.op = "attachShareGroup"
  /\ last.ret # NoGroup
  /\ m_groups[last.key] \notin {NoGroup, last.ret}
  /\ m_groups[last.local] = last.ret
  /\ \A g \in {last.ret, m_groups[last.key]} : sg[g].status = "alive"

\* C15: createShareGroup(key) returns the group registered under key when
\* there is one, changing nothing; otherwise it constructs a group that is
\* distinct from every group constructed so far, with empty tables,
\* registers it under key and returns it.  Either way key resolves to the
\* returned group afterwards, so a repeated call returns the same group.
\* getShareGroup returns the entry of key and never changes the registry.
C15_Step ==
  /\ last'.op = "createShareGroup"
       => LET k == last'.key
              g == last'.ret
          IN  /\ g # NoGroup
              /\ m_groups'[k] = g
              /\ \A k2 \in Keys \ {k} : m_groups'[k2] = m_groups[k2]
              /\ \A h \in GroupIds \ {g} : sg'[h] = sg[h]
              /\ m_groups[k] # NoGroup
                   => g = m_groups[k] /\ sg' = sg
              /\ m_groups[k] = NoGroup
                   => /\ sg[g].status = "none"
                      /\ sg'[g] = NewShareGroup
                      /\ \A k2 \in Keys : m_groups[k2] # g
                      /\ \A c \in Clients : holders[c] # g
  /\ last'.op = "getShareGroup"
       => /\ last'.ret = m_groups[last'.key]
          /\ m_groups' = m_groups
          /\ sg' = sg

C15_CreateOrGet == [][C15_Step]_vars

\* C15 witness: createShareGroup on a key whose group already holds names
\* returned that very group, while a second group exists under another key.
C15_Witness ==
  /\ last.op = "createShareGroup"
  /\ m_groups[last.key] = last.ret
  /\ \E t \in ObjectTypes : sg[last.ret].ns[t].l2g # EmptyMap
  /\ \E k \in Keys : m_groups[k] \notin {NoGroup, last.ret}

\* C16: ShareGroups that are not aliased are independent: a call on one
\* group, or the destruction of one group, leaves the name tables, the
\* object data and the ref counts of every other group unchanged, and a
\* local name generated in one group does not become visible in another.
C16_Step ==
  LET target == IF last'.op = "deleteShareGroup" THEN last'.ret ELSE last'.grp
  IN  /\ \A h \in GroupIds \ {target} : sg'[h] = sg[h]
      /\ last'.op = "genName"
           => \A h \in GroupIds \ {target} :
                SG_isObject(sg'[h], last'.type, last'.ret)
                  = SG_isObject(sg[h], last'.type, last'.ret)

C16_GroupsAreIndependent == [][C16_Step]_vars

\* C16 witness: a texture name was generated in one group while another
\* group, which has state of its own, does not know the local name.
C16_Witness ==
  /\ last.op = "genName" /\ last.ret # 0
  /\ \E h \in GroupIds \ {last.grp} :
       /\ sg[h].status = "alive"
       /\ sg[h] # NewShareGroup
       /\ ~SG_isObject(sg[h], last.type, last.ret)
       /\ SG_isObject(sg[last.grp], last.type, last.ret)

\* C17: replaceGlobalName(local, newGlobal) on a present local name installs
\* newGlobal in both directions: afterwards getGlobalName(local) = newGlobal,
\* getLocalName(newGlobal) = local, and the old global name (when it is
\* another name than newGlobal) maps to no local name; whatever newGlobal
\* is.  On an absent local name the call changes nothing.
C17_Step ==
  (last'.op = "replaceGlobalName" /\ last'.type \in ObjectTypes)
    => LET g    == last'.grp
           t    == last'.type
           l    == last'.local
           new  == last'.global
           old  == SG_getGlobalName(sg[g], t, l)
       IN  /\ SG_isObject(sg[g], t, l)
                => /\ SG_getGlobalName(sg'[g], t, l) = new
                   /\ SG_getLocalName(sg'[g], t, new) = l
                   /\ old # new => SG_getLocalName(sg'[g], t, old) = 0
           /\ ~SG_isObject(sg[g], t, l)
                => sg' = sg /\ gns'.calls = EmptyBag /\ gns'.gl = gns.gl

C17_ReplaceInstallsBothWays == [][C17_Step]_vars

\* A thread inside a call can take its next step, or another thread can.
NoThreadStuck ==
  (fault = NoFault /\ \E th \in Threads : pc[th].at # "idle") => ENABLED LockSteps

\* C18: lock nesting is ShareGroup lock -> GlobalNameSpace lock only: no
\* thread holds a ShareGroup lock or the GlobalNameSpace lock while it holds
\* the registry lock, also when deleteShareGroup drops the last reference to
\* a group; and no thread inside a call is stuck.
C18_NoLockUnderRegistryLock ==
  /\ \A th \in Threads :
       HoldsRegistryLock(th) => ~HoldsGroupLock(th) /\ ~HoldsGlobalLock(th)
  /\ NoThreadStuck

\* C19: GlobalNameSpace::deleteName of a type other than SHADER is called
\* only once the table of delete entry points is bound (m_deleteInitialized,
\* set by the first GlobalNameSpace::genName): no step makes such a call
\* with the table unbound, so no call goes through an unbound entry.
C19_Step ==
  /\ (\E c \in BagToSet(gns'.calls) : c[1] # "SHADER") => gns.m_deleteInitialized
  /\ ~gns'.unbound

C19_DeleteOnlyWhenBound == [][C19_Step]_vars

\* The nonzero values of the counter's range absent from a NameSpace.
FreeLocalNames(ns) == {n \in 1 .. (NameMod - 1) : ~Has(ns.l2g, n)}
\* How many increments take the counter from next to n (1 .. NameMod).
Increments(next, n) == ((n - next - 1) % NameMod) + 1

\* C20: with a counter of LocalBits bits, genName with genLocal = true
\* returns whenever some nonzero value of the range is absent from the
\* table, and then returns the absent nonzero value reached first from
\* m_nextName by increments (wrapping, skipping 0 and every present value),
\* leaving m_nextName at it; it loops forever only when every nonzero
\* value is present.
C20_Step ==
  LET ns == sg[last'.grp].ns[last'.type]
      free == FreeLocalNames(ns)
  IN  /\ (last'.op = "genName" /\ last'.genLocal /\ last'.type \in ObjectTypes)
           => /\ free # {}
              /\ last'.ret \in free
              /\ \A n \in free :
                   Increments(ns.m_nextName, last'.ret) <= Increments(ns.m_nextName, n)
              /\ sg'[last'.grp].ns[last'.type].m_nextName = last'.ret
              /\ fault' = NoFault
      /\ last'.op = "genName:loop" => free = {} /\ last'.genLocal

C20_GenLocalTerminates == [][C20_Step]_vars

\* C20 witness: a generated name that the counter reached by wrapping past
\* 0 and past a present value.
C20_Witness ==
  /\ last.op = "genName" /\ last.genLocal
  /\ last.ret < last.next
  /\ \E n \in 1 .. (NameMod - 1) :
       n < last.ret /\ Has(sg[1].ns[last.type].l2g, n)

====
